---- MODULE Spec2Model ----
(***************************************************************************)
(* A model of the razzi-clock dashboard (main.8.py): the Dashboard         *)
(* controller (config loading, weather refresh, screen stack), the        *)
(* MatrixBackground renderer and the AnalogClock renderer.                 *)
(*                                                                         *)
(* Three specifications share the module, one per independent component:   *)
(*   Spec        the Dashboard: weather refresh and screen navigation      *)
(*   SpecMatrix  the MatrixBackground: paint, toggle, resize               *)
(*   SpecClock   the AnalogClock: one paint per time sample                *)
(* All callbacks run on the single Qt event loop, so every handler is one  *)
(* atomic action.                                                          *)
(***************************************************************************)
EXTENDS Integers, Sequences, FiniteSets, TLC

VARIABLES
    config,        \* the file Wapi.json as found at start-up
    api_key,       \* Dashboard.api_key
    location,      \* Dashboard.location
    temp_btn,      \* text of Dashboard.temp_btn (summary display)
    weather_info,  \* text of Dashboard.weather_info (detail screen)
    netCalls,      \* number of requests.get calls issued so far
    refreshes,     \* number of update_weather invocations so far
    lastResp,      \* what the network answered to the latest request
    escaped,       \* TRUE once an exception left update_weather
    currentIndex,  \* Dashboard.stack.currentIndex()
    lastShown,     \* history: screen named by the latest show_* action
    matrix_btn,    \* text of Dashboard.matrix_btn
    running,       \* MatrixBackground.running
    columns,       \* MatrixBackground.columns
    width,         \* MatrixBackground.width()
    height,        \* MatrixBackground.height()
    last,          \* history: the latest handler that ran
    changedOff,    \* history: columns were modified since the latest
                   \*          deactivating toggle
    resizedOff,    \* history: a resize happened since that toggle
    paintedOff,    \* history: a paintEvent happened since that toggle
    wall,          \* the wall clock, <<hour, minute, second>>
    now,           \* the sample AnalogClock.paintEvent took
    hourAngle,     \* rotation of the hour hand, a fraction <<num, den>>
    minuteAngle,   \* rotation of the minute hand
    secondAngle,   \* rotation of the second hand
    painted,       \* TRUE once the clock has been painted
    elapsed        \* seconds passed since the start of the behaviour

dashVars   == <<config, api_key, location, temp_btn, weather_info, netCalls,
                refreshes, lastResp, escaped, currentIndex, lastShown>>
matrixVars == <<matrix_btn, running, columns, width, height, last, changedOff,
                resizedOff, paintedOff>>
clockVars  == <<wall, now, hourAngle, minuteAngle, secondAngle, painted, elapsed>>
vars       == <<dashVars, matrixVars, clockVars>>

(***************************************************************************)
(* Bounds                                                                  *)
(***************************************************************************)
MaxRefreshes == 3
\* a paint is explored only while every column is below this row
MaxRow == 22
\* the draws of one handler repeat over the columns with this period
RandPeriod == 2
\* random.randint(a, b) is sampled at a, at b and every SampleStep between
SampleStep == 10
\* the wall clock advances at most this many seconds in a behaviour
MaxElapsed == 1

(***************************************************************************)
(* Python / JSON values, tagged by type                                    *)
(***************************************************************************)
None       == [t |-> "null"]
Str(s)     == [t |-> "str", v |-> s]
PyInt(n)   == [t |-> "int", v |-> n]
\* a float with one decimal digit, held in tenths: PyFloat(725) is 72.5
PyFloat(n) == [t |-> "float", v |-> n]
Obj(f)     == [t |-> "obj", v |-> f]
\* a text that json.load / Response.json() cannot parse
Invalid    == [t |-> "invalid"]

Ok(v)     == [exc |-> "none", val |-> v]
Raise(e)  == [exc |-> e, val |-> None]

\* v[k] for a str key k: KeyError on a dict without k, TypeError on a non-dict
Subscript(v, k) ==
    IF v.t = "obj"
    THEN IF k \in DOMAIN v.v THEN Ok(v.v[k]) ELSE Raise("KeyError")
    ELSE Raise("TypeError")

\* bool(v)
Truthy(v) ==
    CASE v.t = "null"  -> FALSE
      [] v.t = "str"   -> v.v # ""
      [] v.t = "int"   -> v.v # 0
      [] v.t = "float" -> v.v # 0
      [] v.t = "obj"   -> DOMAIN v.v # {}
      [] OTHER         -> TRUE

Digit == <<"0", "1", "2", "3", "4", "5", "6", "7", "8", "9">>

RECURSIVE NatStr(_)
NatStr(n) == IF n < 10 THEN Digit[n + 1]
             ELSE NatStr(n \div 10) \o Digit[(n % 10) + 1]

Abs(n) == IF n < 0 THEN -n ELSE n

\* variant: a float is formatted without its decimal digit
PyStr_truncated(v) ==
    CASE v.t = "null"  -> "None"
      [] v.t = "str"   -> v.v
      [] v.t = "int"   -> (IF v.v < 0 THEN "-" ELSE "") \o NatStr(Abs(v.v))
      [] v.t = "float" -> (IF v.v < 0 THEN "-" ELSE "")
                          \o NatStr(Abs(v.v) \div 10)

\* str(v), as an f-string formats it
PyStr(v) ==
    CASE v.t = "null"  -> "None"
      [] v.t = "str"   -> v.v
      [] v.t = "int"   -> (IF v.v < 0 THEN "-" ELSE "") \o NatStr(Abs(v.v))
      [] v.t = "float" -> (IF v.v < 0 THEN "-" ELSE "")
                          \o NatStr(Abs(v.v) \div 10) \o "."
                          \o Digit[(Abs(v.v) % 10) + 1]

(***************************************************************************)
(* The environment of the Dashboard: config files and network answers      *)
(***************************************************************************)
Absent      == [exists |-> FALSE, body |-> Invalid]
File(body)  == [exists |-> TRUE, body |-> body]

ConfigFiles ==
    { Absent,
      File(Invalid),
      File(Str("KEY")),
      File(Obj([k \in {} |-> None])),
      File(Obj([k \in {"api_key"} |-> Str("KEY")])),
      File(Obj([k \in {"location"} |-> Str("Paris")])),
      File(Obj([k \in {"api_key", "location"} |->
                  IF k = "api_key" THEN Str("") ELSE Str("Paris")])),
      File(Obj([k \in {"api_key", "location"} |->
                  IF k = "api_key" THEN Str("KEY") ELSE Str("Paris")])) }

Temps == { PyFloat(725), PyInt(72), PyFloat(-5) }
Conds == { "Sunny", "Rain" }

Condition(c) == Obj([k \in {"text"} |-> Str(c)])
Current(t, c) == Obj([k \in {"temp_f", "condition"} |->
                        IF k = "temp_f" THEN t ELSE c])
Body(cur) == Obj([k \in {"current"} |-> cur])

WellFormedBodies == { Body(Current(t, Condition(c))) : t \in Temps, c \in Conds }

Bodies ==
    WellFormedBodies \cup
    { Invalid,
      Obj([k \in {"error"} |-> Str("API key is invalid.")]),
      Body(None),
      Body(Obj([k \in {"condition"} |-> Condition("Sunny")])),
      Body(Obj([k \in {"temp_f"} |-> PyFloat(725)])),
      Body(Current(PyFloat(725), Obj([k \in {} |-> None]))),
      Body(Current(PyFloat(725), Str("Sunny"))) }

Statuses == { 200, 500 }

NetworkError == [net |-> "error", status |-> 0, body |-> Invalid]
NoRequest    == [net |-> "none", status |-> 0, body |-> Invalid]
Responses    == { NetworkError } \cup
                { [net |-> "ok", status |-> s, body |-> b] :
                      s \in Statuses, b \in Bodies }

(***************************************************************************)
(* Dashboard.load_weather_key                                              *)
(***************************************************************************)
\* variant: the location key is not required
load_weather_key_keyonly(file) ==
    IF ~file.exists THEN <<None, None>>
    ELSE IF file.body.t = "invalid" THEN <<None, None>>
    ELSE LET k == Subscript(file.body, "api_key")
             l == Subscript(file.body, "location")
         IN  IF k.exc # "none" THEN <<None, None>>
             ELSE <<k.val, IF l.exc # "none" THEN None ELSE l.val>>

load_weather_key(file) ==
    IF ~file.exists THEN <<None, None>>              \* open() raises
    ELSE IF file.body.t = "invalid" THEN <<None, None>>  \* json.load raises
    ELSE LET k == Subscript(file.body, "api_key")
             l == Subscript(file.body, "location")
         IN  IF k.exc # "none" \/ l.exc # "none" THEN <<None, None>>
             ELSE <<k.val, l.val>>

(***************************************************************************)
(* Dashboard.update_weather                                                *)
(***************************************************************************)
\* the classes "except Exception" catches
CaughtExceptions ==
    { "ConnectionError", "JSONDecodeError", "KeyError", "TypeError" }

\* requests.get(url).json() followed by the two extractions
Fetch(resp) ==
    IF resp.net = "error" THEN Raise("ConnectionError")
    ELSE IF resp.body.t = "invalid" THEN Raise("JSONDecodeError")
    ELSE LET cur == Subscript(resp.body, "current") IN
         IF cur.exc # "none" THEN cur
    ELSE LET temp == Subscript(cur.val, "temp_f") IN
         IF temp.exc # "none" THEN temp
    ELSE LET cnd == Subscript(cur.val, "condition") IN
         IF cnd.exc # "none" THEN cnd
    ELSE LET txt == Subscript(cnd.val, "text") IN
         IF txt.exc # "none" THEN txt
    ELSE Ok([temp_f |-> temp.val, condition |-> txt.val])

\* variant: the summary is set as soon as temp_f is read, before the
\* condition is extracted
update_weather_partial(key, resp, btn, info, calls) ==
    IF ~Truthy(key)
    THEN [temp_btn |-> "No API", weather_info |-> info,
          netCalls |-> calls, escaped |-> FALSE]
    ELSE LET r == Fetch(resp)
             cur == Subscript(resp.body, "current")
             temp == IF resp.net = "ok" /\ resp.body.t # "invalid"
                        /\ cur.exc = "none"
                     THEN Subscript(cur.val, "temp_f") ELSE Raise("KeyError")
         IN
         IF r.exc = "none"
         THEN [temp_btn |-> PyStr(r.val.temp_f) \o "°F",
               weather_info |-> "Temperature: " \o PyStr(r.val.temp_f)
                                \o "°F\nCondition: " \o PyStr(r.val.condition),
               netCalls |-> calls + 1, escaped |-> FALSE]
         ELSE [temp_btn |-> IF temp.exc = "none"
                            THEN PyStr(temp.val) \o "°F" ELSE "Err",
               weather_info |-> "Weather load error",
               netCalls |-> calls + 1, escaped |-> FALSE]

\* the texts and counters update_weather leaves, given the key, the answer
\* of the network and the texts before
update_weather(key, resp, btn, info, calls) ==
    IF ~Truthy(key)
    THEN [temp_btn |-> "No API", weather_info |-> info,
          netCalls |-> calls, escaped |-> FALSE]
    ELSE LET r == Fetch(resp) IN
         IF r.exc = "none"
         THEN [temp_btn |-> PyStr(r.val.temp_f) \o "°F",
               weather_info |-> "Temperature: " \o PyStr(r.val.temp_f)
                                \o "°F\nCondition: " \o PyStr(r.val.condition),
               netCalls |-> calls + 1, escaped |-> FALSE]
         ELSE IF r.exc \in CaughtExceptions
         THEN [temp_btn |-> "Err", weather_info |-> "Weather load error",
               netCalls |-> calls + 1, escaped |-> FALSE]
         ELSE [temp_btn |-> btn, weather_info |-> info,
               netCalls |-> calls + 1, escaped |-> TRUE]

\* the answers the network can give to this invocation
Answers(key) == IF Truthy(key) THEN Responses ELSE { NoRequest }

(***************************************************************************)
(* The screen stack: QStackedWidget filled by Dashboard.__init__           *)
(***************************************************************************)
\* the screens in the order of the addWidget calls
Screens == << "Main", "WeatherDetail", "Calendar" >>

\* QStackedWidget.setCurrentIndex: an index without a widget is ignored
setCurrentIndex(cur, i) == IF i \in 0..(Len(Screens) - 1) THEN i ELSE cur

\* the screen stacked at index i
ScreenAt(i) == Screens[i + 1]

\* QLabel("Loading…") / QPushButton("Loading…"); the ellipsis U+2026 is
\* written as three dots
Loading == "Loading..."

(***************************************************************************)
(* Components that are idle in a specification keep these values           *)
(***************************************************************************)
Zero == <<0, 1>>

DashIdle ==
    /\ config = Absent /\ api_key = None /\ location = None
    /\ temp_btn = Loading /\ weather_info = Loading
    /\ netCalls = 0 /\ refreshes = 0 /\ lastResp = NoRequest
    /\ escaped = FALSE /\ currentIndex = 0 /\ lastShown = "Main"

MatrixIdle ==
    /\ matrix_btn = "Matrix ON"
    /\ running = TRUE /\ columns = << >> /\ width = 0 /\ height = 0
    /\ last = "init" /\ changedOff = FALSE /\ resizedOff = FALSE
    /\ paintedOff = FALSE

ClockIdle ==
    /\ wall = <<0, 0, 0>> /\ now = <<0, 0, 0>>
    /\ hourAngle = Zero /\ minuteAngle = Zero /\ secondAngle = Zero
    /\ painted = FALSE /\ elapsed = 0

(***************************************************************************)
(* Dashboard                                                               *)
(***************************************************************************)
\* Dashboard.__init__: the key is loaded, the three screens are stacked (the
\* first one added becomes current) and update_weather runs once
Init ==
    /\ config \in ConfigFiles
    /\ api_key = load_weather_key(config)[1]
    /\ location = load_weather_key(config)[2]
    /\ lastResp \in Answers(api_key)
    /\ LET w == update_weather(api_key, lastResp, Loading, Loading, 0) IN
         /\ temp_btn = w.temp_btn
         /\ weather_info = w.weather_info
         /\ netCalls = w.netCalls
         /\ escaped = w.escaped
    /\ refreshes = 1
    /\ currentIndex = 0
    /\ lastShown = "Main"
    /\ MatrixIdle
    /\ ClockIdle

\* weather_timer.timeout -> Dashboard.update_weather
WeatherTick ==
    /\ refreshes < MaxRefreshes
    /\ \E resp \in Answers(api_key) :
         LET w == update_weather(api_key, resp, temp_btn, weather_info, netCalls) IN
           /\ lastResp' = resp
           /\ temp_btn' = w.temp_btn
           /\ weather_info' = w.weather_info
           /\ netCalls' = w.netCalls
           /\ escaped' = (escaped \/ w.escaped)
    /\ refreshes' = refreshes + 1
    /\ UNCHANGED <<config, api_key, location, currentIndex, lastShown>>
    /\ UNCHANGED <<matrixVars, clockVars>>

\* "Back" clicked
show_main ==
    /\ currentIndex' = setCurrentIndex(currentIndex, 0)
    /\ lastShown' = "Main"
    /\ UNCHANGED <<config, api_key, location, temp_btn, weather_info,
                   netCalls, refreshes, lastResp, escaped>>
    /\ UNCHANGED <<matrixVars, clockVars>>

\* temp_btn clicked
show_weather ==
    /\ currentIndex' = setCurrentIndex(currentIndex, 1)
    /\ lastShown' = "WeatherDetail"
    /\ UNCHANGED <<config, api_key, location, temp_btn, weather_info,
                   netCalls, refreshes, lastResp, escaped>>
    /\ UNCHANGED <<matrixVars, clockVars>>

\* variant: the calendar button opens the weather screen
show_calendar_wrong ==
    /\ currentIndex' = setCurrentIndex(currentIndex, 1)
    /\ lastShown' = "Calendar"
    /\ UNCHANGED <<config, api_key, location, temp_btn, weather_info,
                   netCalls, refreshes, lastResp, escaped>>
    /\ UNCHANGED <<matrixVars, clockVars>>

\* date_btn clicked
show_calendar ==
    /\ currentIndex' = setCurrentIndex(currentIndex, 2)
    /\ lastShown' = "Calendar"
    /\ UNCHANGED <<config, api_key, location, temp_btn, weather_info,
                   netCalls, refreshes, lastResp, escaped>>
    /\ UNCHANGED <<matrixVars, clockVars>>

Next == WeatherTick \/ show_main \/ show_weather \/ show_calendar

Spec == Init /\ [][Next]_vars

(***************************************************************************)
(* Properties of the Dashboard (specification Spec)                        *)
(***************************************************************************)
\* the config file yields no key: absent, unparsable, not an object, or
\* without the api_key or the location key
ConfigMissing(file) ==
    \/ ~file.exists
    \/ file.body.t # "obj"
    \/ "api_key" \notin DOMAIN file.body.v
    \/ "location" \notin DOMAIN file.body.v

\* C1: with a missing config, after any number of weather refreshes no
\* network request has been issued and the summary shows "No API"
C1_MissingConfigNoNetwork ==
    ConfigMissing(config) => (netCalls = 0 /\ temp_btn = "No API")

C1_Witness ==
    /\ config = File(Obj([k \in {"api_key"} |-> Str("KEY")]))
    /\ refreshes = MaxRefreshes
    /\ netCalls = 0
    /\ temp_btn = "No API"

\* the answer is one of the failures: network error, non-2xx status,
\* malformed JSON, or a body without current, temp_f, condition or text
HasKey(v, k) == v.t = "obj" /\ k \in DOMAIN v.v

MissingField(b) ==
    \/ ~HasKey(b, "current")
    \/ ~HasKey(b.v["current"], "temp_f")
    \/ ~HasKey(b.v["current"], "condition")
    \/ ~HasKey(b.v["current"].v["condition"], "text")

IsFailure(resp) ==
    \/ resp.net = "error"
    \/ resp.status \notin 200..299
    \/ resp.body.t = "invalid"
    \/ MissingField(resp.body)

\* C2: with a key configured, every failed refresh ends with the summary
\* "Err" and the detail "Weather load error", and no exception escapes
C2_AnyFailureIsErr ==
    (Truthy(api_key) /\ IsFailure(lastResp)) =>
        /\ temp_btn = "Err"
        /\ weather_info = "Weather load error"
        /\ ~escaped

\* the text of each temperature of Temps, written out
TempText(t) ==
    CASE t = PyFloat(725) -> "72.5"
      [] t = PyInt(72)    -> "72"
      [] t = PyFloat(-5)  -> "-0.5"

\* C3: with a key configured, a well-formed answer leaves the summary at
\* exactly the temperature followed by "°F" and the detail text with the
\* same temperature and the condition of that answer
C3_WellFormedPopulates ==
    \A t \in Temps, c \in Conds :
        (Truthy(api_key) /\ lastResp.net = "ok"
           /\ lastResp.body = Body(Current(t, Condition(c)))) =>
            /\ temp_btn = TempText(t) \o "°F"
            /\ weather_info = "Temperature: " \o TempText(t)
                              \o "°F\nCondition: " \o c

C3_Witness ==
    /\ Truthy(api_key)
    /\ lastResp.net = "ok" /\ lastResp.status = 200
    /\ lastResp.body = Body(Current(PyFloat(725), Condition("Sunny")))
    /\ temp_btn = "72.5°F"
    /\ weather_info = "Temperature: 72.5°F\nCondition: Sunny"
    /\ refreshes > 1

\* C4: the current index always names one of the three screens, and that
\* screen is the one of the latest show action (Main before any)
C4_OneActiveScreen ==
    /\ currentIndex \in 0..2
    /\ ScreenAt(currentIndex) \in {"Main", "WeatherDetail", "Calendar"}
    /\ ScreenAt(currentIndex) = lastShown

C4_Witness == lastShown = "Calendar" /\ currentIndex = 2

\* C8: after every weather tick both surfaces show the snapshot of that
\* tick; neither is left at its placeholder
C8_BothSurfacesPublished ==
    refreshes >= 1 => (temp_btn # Loading /\ weather_info # Loading)

\* the answer carries temperature t and condition text c
Carries(resp, t, c) ==
    /\ resp.net = "ok"
    /\ ~MissingField(resp.body)
    /\ resp.body.v["current"].v["temp_f"] = t
    /\ resp.body.v["current"].v["condition"].v["text"] = Str(c)

ErrorPair == temp_btn = "Err" /\ weather_info = "Weather load error"

PopulatedPair(t, c) ==
    /\ temp_btn = PyStr(t) \o "°F"
    /\ weather_info = "Temperature: " \o PyStr(t) \o "°F\nCondition: " \o c

\* C9: with a key configured the two surfaces are either both in the error
\* state or both populated from the latest answer, never a mixture, and a
\* refresh that succeeds ends the "Err" state
C9_NoMixture ==
    Truthy(api_key) =>
        \/ ErrorPair /\ \A t \in Temps, c \in Conds : ~Carries(lastResp, t, c)
        \/ \E t \in Temps, c \in Conds :
              Carries(lastResp, t, c) /\ PopulatedPair(t, c)

C9_ErrEndsOnSuccess ==
    (Truthy(api_key) /\ refreshes' = refreshes + 1
       /\ \E t \in Temps, c \in Conds : Carries(lastResp', t, c))
    => temp_btn' # "Err"

C9_WholesaleOverwrite == [](C9_NoMixture) /\ [][C9_ErrEndsOnSuccess]_vars

C9_Witness ==
    /\ Truthy(api_key)
    /\ refreshes = MaxRefreshes
    /\ lastResp.net = "ok"
    /\ lastResp.body = Body(Current(PyFloat(725), Obj([k \in {} |-> None])))
    /\ ErrorPair

(***************************************************************************)
(* MatrixBackground                                                        *)
(***************************************************************************)
font_size    == 12
DefaultWidth == 400
StartRowLow  == 0
StartRowHigh == 20

\* the sizes the main screen takes
Widths  == { 0, 12, 30 }
Heights == { 24 }

\* the outcomes of random.randint(a, b) the model explores
randint(a, b) == { x \in a..b : x = a \/ x = b \/ (x - a) % SampleStep = 0 }

\* the draws of one init_columns call / one paintEvent: column i (from 0)
\* takes the draw i % RandPeriod
RowDraws   == [0..(RandPeriod - 1) -> randint(StartRowLow, StartRowHigh)]
ResetDraws == [0..(RandPeriod - 1) -> BOOLEAN]

\* variant: the column count is rounded up
init_columns_ceil(w, d) ==
    LET wd == IF w # 0 THEN w ELSE DefaultWidth
        n  == (wd + font_size - 1) \div font_size
    IN  [i \in 1..n |-> d[(i - 1) % RandPeriod]]

\* MatrixBackground.init_columns: the columns for widget width w, d[k] being
\* the outcomes of random.randint(0, 20)
init_columns(w, d) ==
    LET wd == IF w # 0 THEN w ELSE DefaultWidth    \* self.width() or 400
        n  == wd \div font_size
    IN  [i \in 1..n |-> d[(i - 1) % RandPeriod]]

\* variant: a column is reset whenever the draw says so
advance_columns_anywhere(cols, h, r) ==
    [i \in 1..Len(cols) |->
        IF r[(i - 1) % RandPeriod] THEN 0 ELSE cols[i] + 1]

\* the loop of MatrixBackground.paintEvent, r[k] being the outcomes of
\* "random.random() > 0.975"
advance_columns(cols, h, r) ==
    [i \in 1..Len(cols) |->
        IF cols[i] * font_size > h /\ r[(i - 1) % RandPeriod]
        THEN 0 ELSE cols[i] + 1]

\* variant: the running flag is not consulted
paint_columns_always(run, cols, h, r) == advance_columns(cols, h, r)

\* MatrixBackground.paintEvent: nothing is done while not running
paint_columns(run, cols, h, r) ==
    IF ~run THEN cols ELSE advance_columns(cols, h, r)

\* MatrixBackground.__init__ followed by the first geometry
InitMatrix ==
    /\ DashIdle
    /\ ClockIdle
    /\ matrix_btn = "Matrix ON"
    /\ running = TRUE
    /\ width \in Widths
    /\ height \in Heights
    /\ \E d \in RowDraws : columns = init_columns(width, d)
    /\ last = "init"
    /\ changedOff = FALSE
    /\ resizedOff = FALSE
    /\ paintedOff = FALSE

\* timer.timeout -> update() -> paintEvent; Qt also delivers paintEvent after
\* toggle()'s update() and on expose
Matrix_paintEvent ==
    /\ \A i \in 1..Len(columns) : columns[i] < MaxRow
    /\ \E r \in ResetDraws :
         columns' = paint_columns(running, columns, height, r)
    /\ last' = "paint"
    /\ changedOff' = (changedOff \/ (~running /\ columns' # columns))
    /\ paintedOff' = (paintedOff \/ ~running)
    /\ UNCHANGED <<matrix_btn, running, width, height, resizedOff>>
    /\ UNCHANGED <<dashVars, clockVars>>

\* matrix_btn clicked: Dashboard.toggle_matrix -> MatrixBackground.toggle
toggle_matrix ==
    /\ running' = ~running
    /\ matrix_btn' = IF running' THEN "Matrix ON" ELSE "Matrix OFF"
    /\ last' = "toggle"
    /\ changedOff' = IF running THEN FALSE ELSE changedOff
    /\ resizedOff' = IF running THEN FALSE ELSE resizedOff
    /\ paintedOff' = IF running THEN FALSE ELSE paintedOff
    /\ UNCHANGED <<columns, width, height>>
    /\ UNCHANGED <<dashVars, clockVars>>

\* Dashboard.resizeEvent: setGeometry gives the widget the size of the main
\* screen; on a new size Qt calls MatrixBackground.resizeEvent
resizeEvent ==
    /\ \E w \in Widths, h \in Heights :
         /\ <<w, h>> # <<width, height>>
         /\ width' = w
         /\ height' = h
         /\ \E d \in RowDraws : columns' = init_columns(w, d)
    /\ last' = "resize"
    /\ changedOff' = (changedOff \/ (~running /\ columns' # columns))
    /\ resizedOff' = (resizedOff \/ ~running)
    /\ UNCHANGED <<matrix_btn, running, paintedOff>>
    /\ UNCHANGED <<dashVars, clockVars>>

NextMatrix == Matrix_paintEvent \/ toggle_matrix \/ resizeEvent

SpecMatrix == InitMatrix /\ [][NextMatrix]_vars

(***************************************************************************)
(* Properties of the MatrixBackground (specification SpecMatrix)           *)
(***************************************************************************)
RowsNonNegative == \A i \in 1..Len(columns) : columns[i] >= 0

\* the step is a paintEvent
PaintStep == last' = "paint"

\* every column is either reset from below the visible height or moved down
\* by one row
ResetOrIncrement ==
    /\ Len(columns') = Len(columns)
    /\ \A i \in 1..Len(columns) :
          \/ columns'[i] = 0 /\ columns[i] * 12 > height
          \/ columns'[i] = columns[i] + 1

\* C5 as stated: rows are never negative and every tick resets a column only
\* from below the visible height and otherwise increments it by one
C5_EveryTickResetsOrIncrements ==
    [](RowsNonNegative) /\ [][PaintStep => ResetOrIncrement]_vars

\* C5 amended: rows are never negative; a tick while the effect is active
\* resets a column only from below the visible height and otherwise
\* increments it by one; a tick while inactive leaves every row unchanged
C5_ActiveTickResetsOrIncrements ==
    /\ [](RowsNonNegative)
    /\ [][(PaintStep /\ running) => ResetOrIncrement]_vars
    /\ [][(PaintStep /\ ~running) => columns' = columns]_vars

C5_Witness ==
    /\ last = "paint" /\ running
    /\ Len(columns) = 2
    /\ columns[1] = 0 /\ columns[2] > 3

\* C6 as stated: whatever happens between the deactivating and the
\* reactivating toggle, ticking resumes from the columns of the deactivation
C6_ColumnsPreservedWhileInactive ==
    /\ [][last' = "toggle" => running' = ~running]_vars
    /\ []((last = "toggle" /\ running) => ~changedOff)

\* C6 amended: toggling flips the flag, and unless a resize happens in
\* between, the columns are not modified from the deactivating toggle to the
\* reactivating one
C6_ColumnsPreservedUnlessResized ==
    /\ [][last' = "toggle" => running' = ~running]_vars
    /\ [](((~running \/ last = "toggle") /\ ~resizedOff) => ~changedOff)
    /\ [][(~running /\ last' # "resize") => columns' = columns]_vars

C6_Witness ==
    /\ last = "toggle" /\ running
    /\ paintedOff /\ ~resizedOff /\ ~changedOff
    /\ Len(columns) = 2 /\ columns[1] # columns[2] /\ columns[1] > 0

\* C10 as stated: after a resize the column count is width / 12 for every
\* width, 0 included, and every row is in 0..20
C10_ResizeCountIsWidthDiv12 ==
    last = "resize" =>
        /\ Len(columns) = width \div 12
        /\ \A i \in 1..Len(columns) : columns[i] \in 0..20

\* C10 amended: after a resize to a width of at least 1 the column count is
\* width / 12; after a resize to width 0 it is 33, the count of the fallback
\* width 400; every row is in 0..20, active or not
C10_ResizeCountWithFallback ==
    last = "resize" =>
        /\ width >= 1 => Len(columns) = width \div 12
        /\ width = 0 => Len(columns) = 33
        /\ \A i \in 1..Len(columns) : columns[i] \in 0..20

C10_Witness ==
    /\ last = "resize" /\ ~running
    /\ width = 30 /\ Len(columns) = 2
    /\ columns[1] = 0 /\ columns[2] = 20

(***************************************************************************)
(* AnalogClock                                                             *)
(***************************************************************************)
\* datetime.datetime.now(): <<hour, minute, second>>
Times == (0..23) \X (0..59) \X (0..59)

\* exact fractions <<numerator, denominator>> stand for Python's floats
IntDiv(a, b)  == <<a, b>>                           \* a / b
IntPlus(n, f) == <<n * f[2] + f[1], f[2]>>          \* n + f
IntTimes(k, f) == <<k * f[1], f[2]>>                \* k * f

\* variant: the hour is not reduced to the 12-hour dial
hour_rotation_24(t) == IntTimes(30, IntPlus(t[1], IntDiv(t[2], 60)))

\* 30 * ((now.hour % 12) + now.minute / 60)
hour_rotation(t) == IntTimes(30, IntPlus(t[1] % 12, IntDiv(t[2], 60)))

\* 6 * (now.minute + now.second / 60)
minute_rotation(t) == IntTimes(6, IntPlus(t[2], IntDiv(t[3], 60)))

\* 6 * now.second
second_rotation(t) == <<6 * t[3], 1>>

\* one second later on the wall clock
NextSecond(t) ==
    IF t[3] < 59 THEN <<t[1], t[2], t[3] + 1>>
    ELSE IF t[2] < 59 THEN <<t[1], t[2] + 1, 0>>
    ELSE <<(t[1] + 1) % 24, 0, 0>>

InitClock ==
    /\ DashIdle
    /\ MatrixIdle
    /\ wall \in Times
    /\ now = <<0, 0, 0>>
    /\ hourAngle = Zero /\ minuteAngle = Zero /\ secondAngle = Zero
    /\ painted = FALSE
    /\ elapsed = 0

\* the wall clock advances by one second
TimePasses ==
    /\ elapsed < MaxElapsed
    /\ wall' = NextSecond(wall)
    /\ elapsed' = elapsed + 1
    /\ UNCHANGED <<now, hourAngle, minuteAngle, secondAngle, painted>>
    /\ UNCHANGED <<dashVars, matrixVars>>

\* timer.timeout -> update() -> AnalogClock.paintEvent: the time is read once
\* and the three hands are rotated from that reading
Clock_paintEvent ==
    /\ now' = wall
    /\ hourAngle' = hour_rotation(now')
    /\ minuteAngle' = minute_rotation(now')
    /\ secondAngle' = second_rotation(now')
    /\ painted' = TRUE
    /\ UNCHANGED <<wall, elapsed>>
    /\ UNCHANGED <<dashVars, matrixVars>>

NextClock == TimePasses \/ Clock_paintEvent

SpecClock == InitClock /\ [][NextClock]_vars

(***************************************************************************)
(* Properties of the AnalogClock (specification SpecClock)                 *)
(***************************************************************************)
\* the fraction f is at least 0 and below 360
InDial(f) == f[2] > 0 /\ 0 <= f[1] /\ f[1] < 360 * f[2]

\* C7: the three painted angles come from one time sample <<h, m, s>> and
\* are 30 * (h mod 12 + m / 60), 6 * (m + s / 60) and 6 * s degrees, each in
\* [0, 360); 03:00:00 gives 90, 0 and 0
C7_HandAngles ==
    painted =>
        /\ now \in Times
        /\ 2 * hourAngle[1] = (60 * (now[1] % 12) + now[2]) * hourAngle[2]
        /\ 10 * minuteAngle[1] = (60 * now[2] + now[3]) * minuteAngle[2]
        /\ secondAngle[1] = (6 * now[3]) * secondAngle[2]
        /\ InDial(hourAngle) /\ InDial(minuteAngle) /\ InDial(secondAngle)
        /\ now = <<3, 0, 0>> =>
              /\ hourAngle[1] = 90 * hourAngle[2]
              /\ minuteAngle[1] = 0
              /\ secondAngle[1] = 0

C7_Witness ==
    /\ painted
    /\ now = <<15, 0, 0>>
    /\ hourAngle[1] = 90 * hourAngle[2]
    /\ minuteAngle[1] = 0 /\ secondAngle[1] = 0

====
